---- MODULE Spec2Model ----
(***************************************************************************)
(* The MCP Streamable HTTP client of examples/python-mcp-client/example.py *)
(* as a state machine: main() drives one session through initialize,       *)
(* notifications/initialized, tools/list, tools/call and DELETE over an    *)
(* httpx.Client; the server and the network answer each request with any   *)
(* response of a small set, or with a transport error.                     *)
(*                                                                         *)
(* A JSON object is a function from its keys to its values, a JSON array a *)
(* sequence.  A string whose content no statement inspects is a string     *)
(* literal; a tool description is kept as its length, which is all that    *)
(* the slice [:80] reads.                                                  *)
(***************************************************************************)
EXTENDS Integers, Sequences, FiniteSets, TLC

VARIABLES
    pc,          \* the statement of main() that runs next
    client,      \* the httpx.Client of the with block: "none", "open", "closed"
    wire,        \* the requests put on the network, in the order sent
    pending,     \* TRUE while a request waits for its response
    resp,        \* local resp of main()
    session_id,  \* local session_id
    server_info, \* local server_info
    headers,     \* local headers
    tools,       \* local tools
    result,      \* local result
    out,         \* the lines printed, in order
    exc,         \* the exception that left the with block, if any
    initResp,    \* history: the response the initialize request received
    completed,   \* history: the requests that have returned or raised so far
    notified     \* history: how the notification POST returned, "no" before

vars == <<pc, client, wire, pending, resp, session_id, server_info, headers,
          tools, result, out, exc, initResp, completed, notified>>

(***************************************************************************)
(* Bounds of the model.                                                    *)
(***************************************************************************)
\* a tools/list result holds at most this many tool descriptors
MaxTools == 1

(***************************************************************************)
(* Program constants.                                                      *)
(***************************************************************************)
\* def jsonrpc(method, params=None, req_id=1)
DefaultReqId == 1
\* t.get('description', '')[:80]
PreviewLen == 80

\* a local that no statement has assigned yet, and Python's None
None == [none |-> TRUE]
NoSession == "<unset>"
NoException == [type |-> "none", line |-> 0]

Has(obj, key) == key \in DOMAIN obj
EmptyObject == [k \in {} |-> k]
Min(a, b) == IF a < b THEN a ELSE b

(***************************************************************************)
(* The request builder.                                                    *)
(***************************************************************************)
\* params is falsy when it is None or an empty dict
Falsy(params) == params = None \/ DOMAIN params = {}

jsonrpc(method, params, req_id) ==
    LET body == [jsonrpc |-> "2.0", id |-> req_id, method |-> method]
    IN  IF Falsy(params) THEN body ELSE body @@ [params |-> params]

InitializeBody == jsonrpc("initialize", None, DefaultReqId)
NotificationBody == [jsonrpc |-> "2.0", method |-> "notifications/initialized"]
\* as line 41 would be without its req_id argument
ToolsListBody_DefaultId == jsonrpc("tools/list", None, DefaultReqId)

ToolsListBody == jsonrpc("tools/list", None, 2)
ToolsCallBody ==
    jsonrpc("tools/call", [name |-> "ls", arguments |-> [path |-> "."]], 3)

NoHeaders == [h \in {} |-> ""]

\* as line 35 would be with the identifier of one session written into it
SessionHeaders_Hardcoded(sid) == [h \in {"Mcp-Session-Id"} |-> "abc123"]

\* line 35: headers = {"Mcp-Session-Id": session_id}
SessionHeaders(sid) == [h \in {"Mcp-Session-Id"} |-> sid]

Request(verb, hdrs, json) ==
    [verb |-> verb, headers |-> hdrs, json |-> json, via |-> client]

(***************************************************************************)
(* The responses the server may give.                                      *)
(***************************************************************************)
\* the session identifiers the server may issue or name
SessionIds == {"abc123", "s-2"}

Statuses == {200, 202, 404, 500}

\* httpx keeps the header names as sent and looks them up case-insensitively
Lower(name) ==
    CASE name = "Mcp-Session-Id" -> "mcp-session-id"
      [] name = "MCP-SESSION-ID" -> "mcp-session-id"
      [] OTHER -> name

HasHeader(hdrs, name) == \E h \in DOMAIN hdrs : Lower(h) = Lower(name)
HeaderGet(hdrs, name) ==
    hdrs[CHOOSE h \in DOMAIN hdrs : Lower(h) = Lower(name)]

\* the headers of an initialize response: the name in either spelling
InitHeaderSets ==
    {NoHeaders}
    \cup {[h \in {n} |-> s] : n \in {"Mcp-Session-Id", "mcp-session-id"},
                              s \in SessionIds}
\* the headers of a later response: it may name any session, or none
LaterHeaderSets ==
    {NoHeaders} \cup {[h \in {"Mcp-Session-Id"} |-> s] : s \in SessionIds}

NotJson == [isJson |-> FALSE, json |-> EmptyObject]
JsonBody(obj) == [isJson |-> TRUE, json |-> obj]

\* a response object with the id the server chose to echo, or with none
WithIds(obj, ids) == {obj} \cup {[id |-> i] @@ obj : i \in ids}

ErrorObject == [code |-> -32601, message |-> "Method not found"]

ServerInfos ==
    { [name |-> "demo", version |-> "1.0"], [name |-> "demo"] }

InitializeObjects ==
    {EmptyObject, [id |-> 1, error |-> ErrorObject], [id |-> 1, result |-> EmptyObject]}
    \cup UNION {WithIds([result |-> [serverInfo |-> si]], {1, 7}) : si \in ServerInfos}

ToolDescriptors ==
    { [name |-> "ls"],
      [name |-> "ls", description |-> 100],
      [description |-> 100] }

ToolLists == UNION {[1..n -> ToolDescriptors] : n \in 0..MaxTools}

ToolsListObjects ==
    {EmptyObject, [id |-> 2, error |-> ErrorObject], [id |-> 2, result |-> EmptyObject]}
    \cup UNION {WithIds([result |-> [tools |-> ts]], {2, 7}) : ts \in ToolLists}

Texts == {"file1\nfile2", "not found"}
Contents ==
    {<<>>, <<[type |-> "image"]>>} \cup {<<[type |-> "text", text |-> t]>> : t \in Texts}

ToolResults ==
    {EmptyObject, [isError |-> TRUE], [isError |-> FALSE]}
    \cup {[content |-> c] : c \in Contents}
    \cup {[isError |-> e, content |-> c] : e \in BOOLEAN, c \in Contents}

ToolsCallObjects ==
    {EmptyObject} \cup WithIds([error |-> ErrorObject], {3})
    \cup UNION {WithIds([result |-> r], {3, 7}) : r \in ToolResults}

Bodies(objects) == {NotJson} \cup {JsonBody(o) : o \in objects}

Responses(hdrSets, bodies) ==
    [status : Statuses, headers : hdrSets, body : bodies]

InitializeResponses == Responses(InitHeaderSets, Bodies(InitializeObjects))
NotificationResponses ==
    Responses(LaterHeaderSets, {NotJson, JsonBody(EmptyObject)})
ToolsListResponses == Responses(LaterHeaderSets, Bodies(ToolsListObjects))
ToolsCallResponses == Responses(LaterHeaderSets, Bodies(ToolsCallObjects))
DeleteResponses == Responses(LaterHeaderSets, {NotJson})

(***************************************************************************)
(* The statements of main() that read a response.                          *)
(***************************************************************************)
IsSuccess(status) == 200 <= status /\ status <= 299

Raise(type, line) == [type |-> type, line |-> line]

\* as the steps would be without their resp.raise_for_status() line
RaiseForStatus_Never(r, line) == NoException

\* as raise_for_status would be if only a server error (5xx) raised
RaiseForStatus_ServerErrorsOnly(r, line) ==
    IF r.status < 500 THEN NoException ELSE Raise("HTTPStatusError", line)

\* resp.raise_for_status()
RaiseForStatus(r, line) ==
    IF IsSuccess(r.status) THEN NoException ELSE Raise("HTTPStatusError", line)

\* as resp.json()[k1][k2] would be behind a check that the response echoes
\* the id of the request of that line (1 at line 31, 2 at 43, 3 at 56)
JsonPath_Correlated(r, k1, k2, line) ==
    LET n == IF line = 31 THEN 1 ELSE IF line = 43 THEN 2 ELSE 3
    IN  IF ~r.body.isJson THEN Raise("JSONDecodeError", line)
        ELSE IF ~Has(r.body.json, "id") THEN Raise("KeyError", line)
        ELSE IF r.body.json.id # n THEN Raise("ValueError", line)
        ELSE IF ~Has(r.body.json, k1) THEN Raise("KeyError", line)
        ELSE IF k2 # "" /\ ~Has(r.body.json[k1], k2) THEN Raise("KeyError", line)
        ELSE NoException

\* resp.json()[k1][k2]: the exception of the first step that fails
JsonPath(r, k1, k2, line) ==
    IF ~r.body.isJson THEN Raise("JSONDecodeError", line)
    ELSE IF ~Has(r.body.json, k1) THEN Raise("KeyError", line)
    ELSE IF k2 # "" /\ ~Has(r.body.json[k1], k2) THEN Raise("KeyError", line)
    ELSE NoException

\* print(...): one printed line, with the values formatted into it
Printed(line, args) == [line |-> line, args |-> args]

\* as line 30 would be with resp.headers.get("mcp-session-id")
ReadSessionId_Get(r) ==
    IF HasHeader(r.headers, "mcp-session-id")
    THEN [exc |-> NoException, value |-> HeaderGet(r.headers, "mcp-session-id")]
    ELSE [exc |-> NoException, value |-> "None"]

\* line 30: resp.headers["mcp-session-id"]
ReadSessionId(r) ==
    IF HasHeader(r.headers, "mcp-session-id")
    THEN [exc |-> NoException, value |-> HeaderGet(r.headers, "mcp-session-id")]
    ELSE [exc |-> Raise("KeyError", 30), value |-> NoSession]

\* lines 29-35: what the statements after the initialize POST leave behind
AfterInitialize(r) ==
    LET e29 == RaiseForStatus(r, 29)
        e30 == ReadSessionId(r).exc
        sid == ReadSessionId(r).value
        e31 == JsonPath(r, "result", "serverInfo", 31)
        si  == r.body.json.result.serverInfo
        e32 == IF Has(si, "name") /\ Has(si, "version")
               THEN NoException ELSE Raise("KeyError", 32)
        base == [exc |-> NoException, session_id |-> NoSession,
                 server_info |-> None, headers |-> None, out |-> <<>>]
    IN  IF e29 # NoException THEN [base EXCEPT !.exc = e29]
        ELSE IF e30 # NoException THEN [base EXCEPT !.exc = e30]
        ELSE IF e31 # NoException
             THEN [base EXCEPT !.exc = e31, !.session_id = sid]
        ELSE IF e32 # NoException
             THEN [base EXCEPT !.exc = e32, !.session_id = sid, !.server_info = si]
        ELSE [base EXCEPT !.session_id = sid, !.server_info = si,
                          !.headers = SessionHeaders(sid),
                          !.out = << Printed(32, <<si.name, si.version>>),
                                     Printed(33, <<sid>>) >>]

\* t.get('description', '')[:80], as the length of the preview
Preview(t) == IF Has(t, "description") THEN Min(t.description, PreviewLen) ELSE 0

\* the first tool of ts that has no name, or Len(ts) + 1
FirstUnnamed(ts) ==
    IF \E i \in 1..Len(ts) : ~Has(ts[i], "name")
    THEN CHOOSE i \in 1..Len(ts) :
            /\ ~Has(ts[i], "name")
            /\ \A j \in 1..(i - 1) : Has(ts[j], "name")
    ELSE Len(ts) + 1

\* lines 42-47: what the statements after the tools/list POST leave behind
AfterToolsList(r) ==
    LET e42 == RaiseForStatus(r, 42)
        e43 == JsonPath(r, "result", "tools", 43)
        ts  == r.body.json.result.tools
        bad == FirstUnnamed(ts)
        listed == [i \in 1..(bad - 1) |-> Printed(46, <<ts[i].name, Preview(ts[i])>>)]
        base == [exc |-> NoException, tools |-> tools, out |-> <<>>]
    IN  IF e42 # NoException THEN [base EXCEPT !.exc = e42]
        ELSE IF e43 # NoException THEN [base EXCEPT !.exc = e43]
        ELSE IF bad <= Len(ts)
             THEN [exc |-> Raise("KeyError", 46), tools |-> ts,
                   out |-> <<Printed(44, <<Len(ts)>>)>> \o listed]
        ELSE [exc |-> NoException, tools |-> ts,
              out |-> <<Printed(44, <<Len(ts)>>)>> \o listed \o <<Printed(47, <<>>)>>]

\* as line 57 would be with: if "isError" in result
IsError_KeyPresent(res) == Has(res, "isError")

\* as line 57 would be if the flag were never looked at
IsError_Ignored(res) == FALSE

\* result.get("isError"), taken as a condition
IsError(res) == Has(res, "isError") /\ res.isError = TRUE

\* result['content'][0]['text']: the exception of the first step that fails
ContentText(res, line) ==
    IF ~Has(res, "content") THEN Raise("KeyError", line)
    ELSE IF Len(res.content) = 0 THEN Raise("IndexError", line)
    ELSE IF ~Has(res.content[1], "text") THEN Raise("KeyError", line)
    ELSE NoException

\* lines 55-62: what the statements after the tools/call POST leave behind
AfterToolsCall(r) ==
    LET e55 == RaiseForStatus(r, 55)
        e56 == JsonPath(r, "result", "", 56)
        res == r.body.json.result
        base == [exc |-> NoException, result |-> result, out |-> <<>>]
    IN  IF e55 # NoException THEN [base EXCEPT !.exc = e55]
        ELSE IF e56 # NoException THEN [base EXCEPT !.exc = e56]
        ELSE IF IsError(res)
             THEN IF ContentText(res, 58) # NoException
                  THEN [exc |-> ContentText(res, 58), result |-> res, out |-> <<>>]
                  ELSE [exc |-> NoException, result |-> res,
                        out |-> << Printed(58, <<"Tool error", res.content[1].text>>),
                                   Printed(62, <<>>) >>]
        ELSE IF ContentText(res, 61) # NoException
             THEN [exc |-> ContentText(res, 61), result |-> res,
                   out |-> <<Printed(60, <<"ls result">>)>>]
             ELSE [exc |-> NoException, result |-> res,
                   out |-> << Printed(60, <<"ls result">>),
                              Printed(61, <<res.content[1].text>>),
                              Printed(62, <<>>) >>]

(***************************************************************************)
(* main()                                                                  *)
(***************************************************************************)
Init ==
    /\ pc = "with"
    /\ client = "none"
    /\ wire = <<>>
    /\ pending = FALSE
    /\ resp = None
    /\ session_id = NoSession
    /\ server_info = None
    /\ headers = None
    /\ tools = None
    /\ result = None
    /\ out = <<>>
    /\ exc = NoException
    /\ initResp = None
    /\ completed = 0
    /\ notified = "no"

\* as the steps would be inside try/except blocks that swallow the exception
After_Swallowed(e, next) == next

\* as the steps would be under a handler that starts the lifecycle again
After_Reinitialize(e, next) == IF e = NoException THEN next ELSE "initialize"

\* where a statement that raised e inside the with block goes next
After(e, next) == IF e = NoException THEN next ELSE "exit"

\* client.post / client.delete hands one request to the transport
Send(req, wait) ==
    /\ ~pending
    /\ client = "open"
    /\ wire' = Append(wire, req)
    /\ pending' = TRUE
    /\ pc' = wait

\* with httpx.Client(timeout=30) as client:
EnterWith ==
    /\ pc = "with"
    /\ client' = "open"
    /\ pc' = "initialize"
    /\ UNCHANGED <<wire, pending, resp, session_id, server_info, headers,
                   tools, result, out, exc, initResp>>
    /\ UNCHANGED <<completed, notified>>

\* line 28: client.post(url, json=jsonrpc("initialize"))
SendInitialize ==
    /\ pc = "initialize"
    /\ Send(Request("POST", NoHeaders, InitializeBody), "initialize_wait")
    /\ UNCHANGED <<client, resp, session_id, server_info, headers, tools,
                   result, out, exc, initResp>>
    /\ UNCHANGED <<completed, notified>>

\* lines 28-35: the initialize response arrives and is read
InitializeReturns ==
    /\ pc = "initialize_wait"
    /\ pending
    /\ \E r \in InitializeResponses :
        LET a == AfterInitialize(r)
        IN  /\ resp' = r
            /\ initResp' = r
            /\ session_id' = a.session_id
            /\ server_info' = a.server_info
            /\ headers' = a.headers
            /\ out' = out \o a.out
            /\ exc' = a.exc
            /\ pc' = After(a.exc, "notify")
    /\ pending' = FALSE
    /\ UNCHANGED <<client, wire, tools, result>>
    /\ completed' = completed + 1
    /\ UNCHANGED notified

\* as line 38 would be if the POST were handed to a background task, not awaited
SendNotification_FireAndForget ==
    /\ pc = "notify"
    /\ client = "open"
    /\ wire' = Append(wire, Request("POST", headers, NotificationBody))
    /\ pc' = "list"
    /\ UNCHANGED <<client, pending, resp, session_id, server_info, headers,
                   tools, result, out, exc, initResp>>
    /\ UNCHANGED <<completed, notified>>

\* line 38: client.post(url, json={... "notifications/initialized"}, headers=headers)
SendNotification ==
    /\ pc = "notify"
    /\ Send(Request("POST", headers, NotificationBody), "notify_wait")
    /\ UNCHANGED <<client, resp, session_id, server_info, headers, tools,
                   result, out, exc, initResp>>
    /\ UNCHANGED <<completed, notified>>

\* as line 38 would be followed by resp.raise_for_status()
NotificationReturns_Checked ==
    /\ pc = "notify_wait"
    /\ pending
    /\ \E r \in NotificationResponses :
        /\ exc' = RaiseForStatus(r, 38)
        /\ pc' = After(RaiseForStatus(r, 38), "list")
        /\ notified' = IF IsSuccess(r.status) THEN "2xx" ELSE "not 2xx"
    /\ pending' = FALSE
    /\ completed' = completed + 1
    /\ UNCHANGED <<client, wire, resp, session_id, server_info, headers,
                   tools, result, out, initResp>>

\* line 38: the response is dropped, whatever it is
NotificationReturns ==
    /\ pc = "notify_wait"
    /\ pending
    /\ \E r \in NotificationResponses :
        /\ pc' = "list"
        /\ notified' = IF IsSuccess(r.status) THEN "2xx" ELSE "not 2xx"
    /\ pending' = FALSE
    /\ completed' = completed + 1
    /\ UNCHANGED <<client, wire, resp, session_id, server_info, headers,
                   tools, result, out, exc, initResp>>

\* line 41: client.post(url, json=jsonrpc("tools/list", req_id=2), headers=headers)
SendToolsList ==
    /\ pc = "list"
    /\ Send(Request("POST", headers, ToolsListBody), "list_wait")
    /\ UNCHANGED <<client, resp, session_id, server_info, headers, tools,
                   result, out, exc, initResp>>
    /\ UNCHANGED <<completed, notified>>

\* lines 41-47: the tools/list response arrives and is read
ToolsListReturns ==
    /\ pc = "list_wait"
    /\ pending
    /\ \E r \in ToolsListResponses :
        LET a == AfterToolsList(r)
        IN  /\ resp' = r
            /\ tools' = a.tools
            /\ out' = out \o a.out
            /\ exc' = a.exc
            /\ pc' = After(a.exc, "call")
    /\ pending' = FALSE
    /\ UNCHANGED <<client, wire, session_id, server_info, headers, result,
                   initResp>>
    /\ completed' = completed + 1
    /\ UNCHANGED notified

\* lines 50-54: client.post(url, json=jsonrpc("tools/call", {...}, req_id=3), headers=headers)
SendToolsCall ==
    /\ pc = "call"
    /\ Send(Request("POST", headers, ToolsCallBody), "call_wait")
    /\ UNCHANGED <<client, resp, session_id, server_info, headers, tools,
                   result, out, exc, initResp>>
    /\ UNCHANGED <<completed, notified>>

\* as lines 50-62 would be in a loop that repeats the call on a non-2xx status
ToolsCallReturns_RetryOnStatus ==
    /\ pc = "call_wait"
    /\ pending
    /\ \E r \in ToolsCallResponses :
        LET a == AfterToolsCall(r)
        IN  /\ resp' = r
            /\ result' = a.result
            /\ out' = out \o a.out
            /\ exc' = IF IsSuccess(r.status) THEN a.exc ELSE NoException
            /\ pc' = IF IsSuccess(r.status) THEN After(a.exc, "delete") ELSE "call"
    /\ pending' = FALSE
    /\ UNCHANGED <<client, wire, session_id, server_info, headers, tools,
                   initResp>>
    /\ completed' = completed + 1
    /\ UNCHANGED notified

\* lines 50-62: the tools/call response arrives and is read
ToolsCallReturns ==
    /\ pc = "call_wait"
    /\ pending
    /\ \E r \in ToolsCallResponses :
        LET a == AfterToolsCall(r)
        IN  /\ resp' = r
            /\ result' = a.result
            /\ out' = out \o a.out
            /\ exc' = a.exc
            /\ pc' = After(a.exc, "delete")
    /\ pending' = FALSE
    /\ UNCHANGED <<client, wire, session_id, server_info, headers, tools,
                   initResp>>
    /\ completed' = completed + 1
    /\ UNCHANGED notified

\* line 65: client.delete(url, headers=headers)
SendDelete ==
    /\ pc = "delete"
    /\ Send(Request("DELETE", headers, None), "delete_wait")
    /\ UNCHANGED <<client, resp, session_id, server_info, headers, tools,
                   result, out, exc, initResp>>
    /\ UNCHANGED <<completed, notified>>

\* as lines 65-66 would be in a loop that repeats the DELETE until a 2xx answer
DeleteReturns_Retry ==
    /\ pc = "delete_wait"
    /\ pending
    /\ \E r \in DeleteResponses :
        /\ resp' = r
        /\ out' = Append(out, Printed(66, <<r.status>>))
        /\ pc' = IF IsSuccess(r.status) THEN "exit" ELSE "delete"
    /\ pending' = FALSE
    /\ UNCHANGED <<client, wire, session_id, server_info, headers, tools,
                   result, exc, initResp>>
    /\ completed' = completed + 1
    /\ UNCHANGED notified

\* as lines 65-66 would be with resp.raise_for_status() after the DELETE
DeleteReturns_RaiseForStatus ==
    /\ pc = "delete_wait"
    /\ pending
    /\ \E r \in DeleteResponses :
        /\ resp' = r
        /\ exc' = RaiseForStatus(r, 66)
        /\ out' = IF IsSuccess(r.status)
                  THEN Append(out, Printed(66, <<r.status>>)) ELSE out
    /\ pending' = FALSE
    /\ pc' = "exit"
    /\ UNCHANGED <<client, wire, session_id, server_info, headers, tools,
                   result, initResp>>
    /\ completed' = completed + 1
    /\ UNCHANGED notified

\* lines 65-66: the answer to the DELETE arrives and its status is printed
DeleteReturns ==
    /\ pc = "delete_wait"
    /\ pending
    /\ \E r \in DeleteResponses :
        /\ resp' = r
        /\ out' = Append(out, Printed(66, <<r.status>>))
    /\ pending' = FALSE
    /\ pc' = "exit"
    /\ UNCHANGED <<client, wire, session_id, server_info, headers, tools,
                   result, exc, initResp>>
    /\ completed' = completed + 1
    /\ UNCHANGED notified

\* the line of the call that waits at pc
LineOf(at) ==
    CASE at = "initialize_wait" -> 28
      [] at = "notify_wait" -> 38
      [] at = "list_wait" -> 41
      [] at = "call_wait" -> 50
      [] at = "delete_wait" -> 65
      [] OTHER -> 0

\* as the calls would be inside a loop that repeats a request that raised
TransportError_Retry ==
    /\ pending
    /\ pending' = FALSE
    /\ exc' = Raise("TransportError", LineOf(pc))
    /\ pc' = CASE pc = "initialize_wait" -> "initialize"
              [] pc = "notify_wait" -> "notify"
              [] pc = "list_wait" -> "list"
              [] pc = "call_wait" -> "call"
              [] OTHER -> "delete"
    /\ UNCHANGED <<client, wire, resp, session_id, server_info, headers,
                   tools, result, out, initResp>>
    /\ completed' = completed + 1
    /\ UNCHANGED notified

\* the transport raises instead of returning a response: the connection is
\* refused or lost, or the 30 second timeout expires
TransportError ==
    /\ pending
    /\ pending' = FALSE
    /\ exc' = Raise("TransportError", LineOf(pc))
    /\ pc' = "exit"
    /\ UNCHANGED <<client, wire, resp, session_id, server_info, headers,
                   tools, result, out, initResp>>
    /\ completed' = completed + 1
    /\ UNCHANGED notified

\* as the block would be with client.close() as its last statement, no with
ClientAfterExit_LeakOnError(e) == IF e = NoException THEN "closed" ELSE "open"

\* what leaving the with block does to the client, e being the exception in flight
ClientAfterExit(e) == "closed"

\* the with block is left, by its last statement or by an exception
ExitWith ==
    /\ pc = "exit"
    /\ client' = ClientAfterExit(exc)
    /\ pc' = IF exc = NoException THEN "done" ELSE "raised"
    /\ UNCHANGED <<wire, pending, resp, session_id, server_info, headers,
                   tools, result, out, exc, initResp>>
    /\ UNCHANGED <<completed, notified>>

Next ==
    \/ EnterWith
    \/ SendInitialize
    \/ InitializeReturns
    \/ SendNotification
    \/ NotificationReturns
    \/ SendToolsList
    \/ ToolsListReturns
    \/ SendToolsCall
    \/ ToolsCallReturns
    \/ SendDelete
    \/ DeleteReturns
    \/ TransportError
    \/ ExitWith

Spec == Init /\ [][Next]_vars

(***************************************************************************)
(* The session of the lifecycle, read off main()'s position.               *)
(***************************************************************************)
SessionState ==
    IF exc # NoException THEN "Failed"
    ELSE IF pc \in {"with", "initialize"} THEN "Uninitialized"
    ELSE IF pc = "initialize_wait" THEN "Initializing"
    ELSE IF pc \in {"notify", "notify_wait", "list", "list_wait", "call",
                    "call_wait", "delete", "delete_wait"} THEN "Active"
    ELSE "Closed"

Ended == pc \in {"done", "raised"}

Method(req) == IF Has(req.json, "method") THEN req.json.method ELSE ""
Sent(method) == \E i \in 1..Len(wire) : Method(wire[i]) = method
DeleteCount == Cardinality({i \in 1..Len(wire) : wire[i].verb = "DELETE"})
PrintedLine(line, args) ==
    \E i \in 1..Len(out) : out[i].line = line /\ out[i].args = args

SessionHeaderOf(hdrs) == HeaderGet(hdrs, "mcp-session-id")
HasSessionHeader(hdrs) == HasHeader(hdrs, "mcp-session-id")
HasServerInfo(r) ==
    /\ r.body.isJson
    /\ Has(r.body.json, "result")
    /\ Has(r.body.json.result, "serverInfo")

(***************************************************************************)
(* C1.  Every request sent after the initialize request (the               *)
(* notifications/initialized, tools/list and tools/call POSTs and the      *)
(* DELETE) carries an Mcp-Session-Id header whose value is the value of    *)
(* the mcp-session-id header of the initialize response, whatever the      *)
(* later responses name; the initialize request carries no session header. *)
(***************************************************************************)
C1_SessionHeaderOnEveryRequest ==
    \A i \in 1..Len(wire) :
        IF i = 1
        THEN /\ Method(wire[i]) = "initialize"
             /\ ~HasSessionHeader(wire[i].headers)
        ELSE /\ initResp # None
             /\ HasSessionHeader(initResp.headers)
             /\ DOMAIN wire[i].headers = {"Mcp-Session-Id"}
             /\ wire[i].headers["Mcp-Session-Id"] = SessionHeaderOf(initResp.headers)

\* the DELETE is on the wire after a tools/call response that named another session
C1_Witness ==
    /\ pc = "delete_wait"
    /\ Len(wire) = 5
    /\ HasSessionHeader(resp.headers)
    /\ SessionHeaderOf(resp.headers) # SessionHeaderOf(initResp.headers)

(***************************************************************************)
(* What a tools/call response is, and what main() made of it.  While       *)
(* CallAnswered holds, resp is the response to tools/call.                 *)
(***************************************************************************)
CallRaised == exc.line \in {55, 56, 58, 61}
CallAnswered == pc = "delete" \/ (pc \in {"exit", "raised"} /\ CallRaised)

ErrorEnvelope(r) ==
    r.body.isJson /\ Has(r.body.json, "error") /\ ~Has(r.body.json, "result")
HasResult(r) == r.body.isJson /\ Has(r.body.json, "result")
FlagTrue(res) == Has(res, "isError") /\ res.isError = TRUE
HasText(res) ==
    /\ Has(res, "content")
    /\ Len(res.content) >= 1
    /\ Has(res.content[1], "text")

ToolFailureReported == \E i \in 1..Len(out) : out[i].line = 58
SuccessReported == \E i \in 1..Len(out) : out[i].line = 61

\* the three kinds of outcome: an exception leaves main(), or one of two reports
ProtocolFailure == CallRaised /\ ~ToolFailureReported /\ ~SuccessReported
ToolFailure(text) ==
    /\ ~CallRaised
    /\ PrintedLine(58, <<"Tool error", text>>)
    /\ ~SuccessReported
Success(text) ==
    /\ ~CallRaised
    /\ PrintedLine(61, <<text>>)
    /\ ~ToolFailureReported

(***************************************************************************)
(* C2, as claimed.  For every 2xx response to tools/call: an error         *)
(* envelope (no result) is a protocol-level failure, a result with isError *)
(* true is a tool-level failure carrying content[0].text, a result with    *)
(* isError false or absent is a success carrying content[0].text.          *)
(***************************************************************************)
C2_EveryResponseClassified ==
    (CallAnswered /\ IsSuccess(resp.status)) =>
        /\ ErrorEnvelope(resp) => ProtocolFailure
        /\ (HasResult(resp) /\ FlagTrue(resp.body.json.result)) =>
                /\ HasText(resp.body.json.result)
                /\ ToolFailure(resp.body.json.result.content[1].text)
        /\ (HasResult(resp) /\ ~FlagTrue(resp.body.json.result)) =>
                /\ HasText(resp.body.json.result)
                /\ Success(resp.body.json.result.content[1].text)

(***************************************************************************)
(* C2, amended.  For every 2xx response to tools/call that is an error     *)
(* envelope (no result) or a result whose content[0].text is present, the  *)
(* outcome is of exactly one of three kinds: the error envelope is a       *)
(* protocol-level failure (an exception leaves main(), nothing is          *)
(* reported), the result with isError true a tool-level failure reported   *)
(* with content[0].text, the result with isError false or absent a success *)
(* reported with content[0].text.                                          *)
(***************************************************************************)
C2_WellFormedResponseClassified ==
    (CallAnswered /\ IsSuccess(resp.status)) =>
        /\ ErrorEnvelope(resp) => ProtocolFailure
        /\ (HasResult(resp) /\ HasText(resp.body.json.result)
                /\ FlagTrue(resp.body.json.result)) =>
                ToolFailure(resp.body.json.result.content[1].text)
        /\ (HasResult(resp) /\ HasText(resp.body.json.result)
                /\ ~FlagTrue(resp.body.json.result)) =>
                Success(resp.body.json.result.content[1].text)

\* a 2xx error envelope was answered to tools/call and main() has ended
C2_Witness ==
    /\ pc = "raised"
    /\ CallAnswered
    /\ IsSuccess(resp.status)
    /\ ErrorEnvelope(resp)
    /\ exc = Raise("KeyError", 56)

(***************************************************************************)
(* C3, as claimed.  When tools/call returns a 2xx response whose result    *)
(* has isError true, main() does not raise: the failure is reported with   *)
(* result.content[0].text, the session stays Active and the DELETE is the  *)
(* next request, which is sent.                                            *)
(***************************************************************************)
C3_ToolErrorNeverRaises ==
    (result # None /\ FlagTrue(result)) =>
        /\ ~CallRaised
        /\ HasText(result)
        /\ PrintedLine(58, <<"Tool error", result.content[1].text>>)
        /\ pc = "delete" => SessionState = "Active" /\ ENABLED SendDelete
        /\ pc # "delete" => DeleteCount = 1

(***************************************************************************)
(* C3, amended.  When tools/call returns a 2xx response whose result has   *)
(* isError true and a content[0].text, main() does not raise: the failure  *)
(* is reported with that text and not as a success, the session stays      *)
(* Active and the DELETE is the next request, which is sent.               *)
(***************************************************************************)
C3_ToolErrorWithTextNeverRaises ==
    (result # None /\ FlagTrue(result) /\ HasText(result)) =>
        /\ ~CallRaised
        /\ PrintedLine(58, <<"Tool error", result.content[1].text>>)
        /\ ~SuccessReported
        /\ pc = "delete" => SessionState = "Active" /\ ENABLED SendDelete
        /\ pc # "delete" => DeleteCount = 1

\* the spec's scenario: isError true with the text "not found", and the run ended
C3_Witness ==
    /\ pc = "done"
    /\ FlagTrue(result)
    /\ PrintedLine(58, <<"Tool error", "not found">>)
    /\ DeleteCount = 1

(***************************************************************************)
(* C4, as claimed.  Whenever a session identifier was obtained from        *)
(* initialize and the session was set up with it, the DELETE has been sent *)
(* by the time main() ends, also when a later step (notifications/         *)
(* initialized, tools/list or tools/call) failed.                          *)
(***************************************************************************)
C4_CloseAlwaysAttempted ==
    (Ended /\ session_id # NoSession /\ headers # None) => DeleteCount >= 1

(***************************************************************************)
(* C5.  When the initialize request fails with a transport error or a      *)
(* non-2xx status, the session is Failed and never Active, the initialize  *)
(* request is the only request ever sent (no notifications/initialized,    *)
(* tools/list or tools/call, and no second initialize).                    *)
(***************************************************************************)
InitializeFailed ==
    \/ exc = Raise("TransportError", 28)
    \/ initResp # None /\ ~IsSuccess(initResp.status)

C5_InitializeFailureAborts ==
    InitializeFailed =>
        /\ SessionState = "Failed"
        /\ Len(wire) = 1
        /\ Method(wire[1]) = "initialize"
        /\ headers = None

\* initialize was answered with HTTP 500 and main() has ended
C5_Witness ==
    /\ pc = "raised"
    /\ initResp # None
    /\ initResp.status = 500
    /\ exc = Raise("HTTPStatusError", 29)

(***************************************************************************)
(* C6.  A tools/list or tools/call request is on the network only after    *)
(* initialize has succeeded: its response was 2xx, and the session         *)
(* identifier and result.serverInfo were read from it.                     *)
(***************************************************************************)
InitializeSucceeded ==
    /\ initResp # None
    /\ IsSuccess(initResp.status)
    /\ HasSessionHeader(initResp.headers)
    /\ HasServerInfo(initResp)
    /\ session_id = SessionHeaderOf(initResp.headers)
    /\ server_info = initResp.body.json.result.serverInfo

C6_ToolRequestsOnlyAfterInitialize ==
    (Sent("tools/list") \/ Sent("tools/call")) =>
        /\ Method(wire[1]) = "initialize"
        /\ InitializeSucceeded

\* the tools/call request is on the wire
C6_Witness == pc = "call_wait" /\ Sent("tools/call") /\ Sent("tools/list")

(***************************************************************************)
(* C7.  The ids of the requests that carry one increase strictly in the    *)
(* order the requests are sent, so no id is used twice; the requests that  *)
(* carry an id are initialize (which takes jsonrpc()'s default id),        *)
(* tools/list and tools/call.                                              *)
(***************************************************************************)
C7_RequestIdsIncrease ==
    /\ \A i, j \in 1..Len(wire) :
        (i < j /\ Has(wire[i].json, "id") /\ Has(wire[j].json, "id"))
            => wire[i].json.id < wire[j].json.id
    /\ \A i \in 1..Len(wire) :
        Has(wire[i].json, "id")
            <=> Method(wire[i]) \in {"initialize", "tools/list", "tools/call"}
    /\ Len(wire) >= 1 => wire[1].json.id = DefaultReqId

\* three requests with an id are on the wire
C7_Witness ==
    Cardinality({i \in 1..Len(wire) : Has(wire[i].json, "id")}) = 3

C9_TransportScoped ==
    /\ Len(wire) >= 1 => client # "none"
    /\ \A i \in 1..Len(wire) : wire[i].via = "open"
    /\ Ended => client = "closed"
    /\ client = "closed" => Ended /\ ~pending

\* main() was left by the KeyError of a missing session header
C9_Witness ==
    /\ pc = "raised"
    /\ exc = Raise("KeyError", 30)
    /\ client = "closed"

(***************************************************************************)
(* C10.  When the initialize response is 2xx but has no Mcp-Session-Id     *)
(* header or no result.serverInfo, the session is Failed, never Active,    *)
(* and none of notifications/initialized, tools/list, tools/call is sent.  *)
(***************************************************************************)
InitializeViolatesProtocol ==
    /\ initResp # None
    /\ IsSuccess(initResp.status)
    /\ ~HasSessionHeader(initResp.headers) \/ ~HasServerInfo(initResp)

C10_ProtocolViolationIsFatal ==
    InitializeViolatesProtocol =>
        /\ SessionState = "Failed"
        /\ exc.line \in {30, 31}
        /\ headers = None
        /\ Len(wire) = 1
        /\ ~Sent("notifications/initialized")
        /\ ~Sent("tools/list")
        /\ ~Sent("tools/call")

\* a 2xx initialize response with the header and without serverInfo
C10_Witness ==
    /\ pc = "raised"
    /\ InitializeViolatesProtocol
    /\ HasSessionHeader(initResp.headers)
    /\ initResp.body.isJson
    /\ Has(initResp.body.json, "result")

(***************************************************************************)
(* C11.  Once the DELETE has been sent and answered, whatever the status   *)
(* of the answer (2xx, 4xx or 5xx), the session is Closed: no exception is *)
(* raised, the DELETE is on the wire once and is the last request, and the *)
(* status of the answer is printed.                                        *)
(***************************************************************************)
DeleteAnswered ==
    /\ completed = 5
    /\ DeleteCount >= 1
    /\ exc # Raise("TransportError", 65)

C11_ClosedWhateverTheStatus ==
    DeleteAnswered =>
        /\ resp.status \in Statuses
        /\ exc = NoException
        /\ SessionState = "Closed"
        /\ DeleteCount = 1
        /\ Len(wire) = 5
        /\ PrintedLine(66, <<resp.status>>)

\* the DELETE was answered 404 and main() returned
C11_Witness ==
    /\ pc = "done"
    /\ DeleteAnswered
    /\ resp.status = 404
    /\ PrintedLine(66, <<404>>)

(***************************************************************************)
(* The step in which the notifications/initialized POST returns or raises, *)
(* and what it must leave alone.                                           *)
(***************************************************************************)
NotificationCompletes == pc = "notify_wait" /\ completed' = completed + 1

NotificationLeavesSessionActive ==
    /\ UNCHANGED <<session_id, server_info, headers, resp, tools, result,
                   out, wire, client>>
    /\ session_id' = SessionHeaderOf(initResp.headers)
    /\ exc' = NoException
    /\ SessionState' = "Active"
    /\ pc' = "list"

(***************************************************************************)
(* C12, as claimed.  However the notifications/initialized call ends (any  *)
(* HTTP status, any or no body, or a transport failure), the session stays *)
(* Active with the same session identifier, no local changes, the body is  *)
(* not parsed, and main() goes on to tools/list.                           *)
(***************************************************************************)
C12_NotificationNeverFatal ==
    [][NotificationCompletes => NotificationLeavesSessionActive]_vars

(***************************************************************************)
(* C12, amended.  Whatever response the notifications/initialized call     *)
(* receives (any HTTP status, any or no body), the session stays Active    *)
(* with the same session identifier, no local changes, the body is not     *)
(* parsed, and main() goes on to tools/list.                               *)
(***************************************************************************)
C12_NotificationResponseNeverFatal ==
    [][(NotificationCompletes /\ exc'.type # "TransportError")
            => NotificationLeavesSessionActive]_vars

\* the notification was answered with a status that is not 2xx; tools/list is next
C12_Witness ==
    /\ pc = "list"
    /\ notified = "not 2xx"
    /\ SessionState = "Active"
    /\ session_id = SessionHeaderOf(initResp.headers)

(***************************************************************************)
(* C13.  At most one request is outstanding at any moment: a request is    *)
(* sent only when every earlier one has returned or raised; and the        *)
(* requests on the wire are a prefix of initialize,                        *)
(* notifications/initialized, tools/list, tools/call, DELETE.              *)
(***************************************************************************)
Outstanding == Len(wire) - completed
Kind(req) == IF req.verb = "DELETE" THEN "DELETE" ELSE Method(req)
LifecycleOrder ==
    << "initialize", "notifications/initialized", "tools/list", "tools/call",
       "DELETE" >>

C13_OneRequestAtATime ==
    /\ Outstanding \in {0, 1}
    /\ pending <=> Outstanding = 1
    /\ Len(wire) <= Len(LifecycleOrder)
    /\ \A i \in 1..Len(wire) : Kind(wire[i]) = LifecycleOrder[i]

\* the DELETE is outstanding and the four requests before it have returned
C13_Witness ==
    /\ Len(wire) = 5
    /\ completed = 4
    /\ pending

(***************************************************************************)
(* C14.  A transport error on any request is fatal: main() leaves the with *)
(* block at once and ends by raising, never by returning; the request that *)
(* failed is the last one on the wire and is there once, so nothing is     *)
(* resent and no later request is sent.                                    *)
(***************************************************************************)
RequestOfLine(line) ==
    CASE line = 28 -> 1
      [] line = 38 -> 2
      [] line = 41 -> 3
      [] line = 50 -> 4
      [] line = 65 -> 5
      [] OTHER -> 0

C14_TransportErrorIsFatal ==
    exc.type = "TransportError" =>
        /\ pc \in {"exit", "raised"}
        /\ ~pending
        /\ Len(wire) = RequestOfLine(exc.line)
        /\ completed = Len(wire)
        /\ \A i, j \in 1..Len(wire) : Kind(wire[i]) = Kind(wire[j]) => i = j

\* the tools/call POST raised a transport error and main() has ended
C14_Witness ==
    /\ pc = "raised"
    /\ exc = Raise("TransportError", 50)
    /\ Len(wire) = 4
    /\ client = "closed"

(***************************************************************************)
(* C15.  Whatever the server answers, each of the five requests            *)
(* (initialize, notifications/initialized, tools/list, tools/call, DELETE) *)
(* is sent at most once, and nothing else is sent.                         *)
(***************************************************************************)
TimesSent(kind) == Cardinality({i \in 1..Len(wire) : Kind(wire[i]) = kind})

C15_NoRetries ==
    /\ \A i \in 1..Len(wire) :
        \E k \in 1..Len(LifecycleOrder) : Kind(wire[i]) = LifecycleOrder[k]
    /\ \A k \in 1..Len(LifecycleOrder) : TimesSent(LifecycleOrder[k]) <= 1

\* tools/call was answered with a status that is not 2xx and main() has ended
C15_Witness ==
    /\ pc = "raised"
    /\ exc = Raise("HTTPStatusError", 55)
    /\ resp.status = 500
    /\ TimesSent("tools/call") = 1

(***************************************************************************)
(* C16.  Closed and Failed are terminal: once the DELETE has been sent or  *)
(* an exception has been raised, no step sends a request, the session is   *)
(* Closed or Failed after every step, and a Failed session stays Failed    *)
(* with the exception that failed it.                                      *)
(***************************************************************************)
C16_TerminalStatesStay ==
    [][(DeleteCount >= 1 \/ exc # NoException) =>
            /\ wire' = wire
            /\ SessionState' \in {"Closed", "Failed"}
            /\ exc # NoException => exc' = exc]_vars

\* the session was Active, tools/list failed it, and main() has ended
C16_Witness ==
    /\ pc = "raised"
    /\ SessionState = "Failed"
    /\ headers # None
    /\ exc = Raise("KeyError", 43)

(***************************************************************************)
(* C17.  A non-2xx response to tools/list or to tools/call is fatal for    *)
(* the step: HTTPStatusError is raised, the body is not read as a result   *)
(* (no tool list is printed; no tool outcome is reported, as success or as *)
(* tool-level failure), and after a failed tools/list no tools/call is     *)
(* sent.  While completed = 3, resp is the tools/list response, while      *)
(* completed = 4 the tools/call response, unless the POST itself raised.   *)
(***************************************************************************)
PrintedAny(lines) == \E i \in 1..Len(out) : out[i].line \in lines

C17_Non2xxIsFatalForTheStep ==
    /\ (completed = 3 /\ exc # Raise("TransportError", 41)
            /\ ~IsSuccess(resp.status)) =>
        /\ exc = Raise("HTTPStatusError", 42)
        /\ pc \in {"exit", "raised"}
        /\ ~PrintedAny({44, 46, 47})
        /\ ~Sent("tools/call")
    /\ (completed = 4 /\ exc # Raise("TransportError", 50)
            /\ ~IsSuccess(resp.status)) =>
        /\ exc = Raise("HTTPStatusError", 55)
        /\ pc \in {"exit", "raised"}
        /\ result = None
        /\ ~PrintedAny({58, 60, 61, 62})

\* tools/list was answered 500 with a body that holds a tool list
C17_Witness ==
    /\ pc = "raised"
    /\ completed = 3
    /\ resp.status = 500
    /\ HasResult(resp)
    /\ Has(resp.body.json.result, "tools")
    /\ exc = Raise("HTTPStatusError", 42)

(***************************************************************************)
(* C18.  Responses are paired with requests by the HTTP exchange, not by   *)
(* the JSON-RPC id.  main() never reads the id member of a response body.  *)
(***************************************************************************)
EchoesId(r, n) ==
    /\ r.body.isJson
    /\ Has(r.body.json, "id")
    /\ r.body.json.id = n

\* the response to each POST, while it is the one the variables hold
ListAnswered == completed = 3 /\ exc # Raise("TransportError", 41)
ToolsConsumed == ListAnswered /\ PrintedAny({44})
ResultConsumed == CallAnswered /\ result # None

\* C18 as stated: a response is consumed as the result of the request with
\* id N only when its id member equals N.
C18_ConsumedOnlyWhenIdMatches ==
    /\ server_info # None => EchoesId(initResp, 1)
    /\ ToolsConsumed => EchoesId(resp, 2)
    /\ ResultConsumed => EchoesId(resp, 3)

\* C18 amended: the response to the POST of a request is consumed as that
\* request's result whenever it is 2xx and holds the members the step reads
\* (and, for initialize, the session header), whatever its id member is:
\* equal to the request's, different, or missing.
C18_ConsumedWhateverTheId ==
    /\ (initResp # None /\ IsSuccess(initResp.status)
            /\ HasSessionHeader(initResp.headers) /\ HasServerInfo(initResp)) =>
        server_info = initResp.body.json.result.serverInfo
    /\ (ListAnswered /\ IsSuccess(resp.status) /\ HasResult(resp)
            /\ Has(resp.body.json.result, "tools")) =>
        /\ PrintedLine(44, <<Len(resp.body.json.result.tools)>>)
        /\ tools = resp.body.json.result.tools
    /\ (CallAnswered /\ IsSuccess(resp.status) /\ HasResult(resp)) =>
        result = resp.body.json.result

\* serverInfo was taken from a response that echoed id 7, and the tool
\* outcome from a response with no id member
C18_Witness ==
    /\ server_info # None
    /\ EchoesId(initResp, 7)
    /\ ResultConsumed
    /\ ~Has(resp.body.json, "id")
    /\ SuccessReported

(***************************************************************************)
(* The lifecycle under fairness.  main() is one sequential process that    *)
(* keeps running (ProgramStep), and httpx.Client(timeout=30) bounds every  *)
(* request: the transport answers it or raises within the timeout          *)
(* (TransportCompletes).                                                   *)
(***************************************************************************)
ProgramStep ==
    \/ EnterWith
    \/ SendInitialize
    \/ SendNotification
    \/ SendToolsList
    \/ SendToolsCall
    \/ SendDelete
    \/ ExitWith

\* as the transport would be with httpx.Client(timeout=None): nothing obliges
\* it to complete a request
TransportCompletes_NoTimeout == FALSE

\* the transport completes the outstanding request, with a response or with
\* a transport error
TransportCompletes ==
    \/ InitializeReturns
    \/ NotificationReturns
    \/ ToolsListReturns
    \/ ToolsCallReturns
    \/ DeleteReturns
    \/ TransportError

FairSpec == Spec /\ WF_vars(ProgramStep) /\ WF_vars(TransportCompletes)

(***************************************************************************)
(* C19.  When the transport completes every request it is given, every run *)
(* of the lifecycle ends: main() returns after the close step or an        *)
(* exception leaves it, and the HTTP client is closed either way.  And     *)
(* while a request is outstanding main() takes no step of its own: the     *)
(* only thing that happens is the completion of that request.              *)
(***************************************************************************)
C19_Terminates ==
    /\ <>(Ended /\ client = "closed" /\ ~pending)
    /\ [][pending => (~pending' /\ completed' = completed + 1
                        /\ wire' = wire)]_vars

\* the DELETE timed out, and the run still ended with the client closed
C19_Witness ==
    /\ Ended
    /\ client = "closed"
    /\ completed = 5
    /\ exc = Raise("TransportError", 65)

====
